---- MODULE Spec2Model ----
(***************************************************************************)
(* Model of the terminal menu of zmk-setup-script: TerminalMenu.show(),    *)
(* show_menu() and show_prompt() of src/zmk/setup/menu.py.                 *)
(*                                                                         *)
(* A state is taken where the program blocks or has left show(): before    *)
(* show() is called ("idle"), blocked in terminal.read_key() with a frame  *)
(* on the screen ("input"), after show() returned an item ("returned") or  *)
(* after an exception left show() ("raised").  Indices are 0-based as in   *)
(* the Python source; a TLA+ sequence is 1-based, so items[i] of the       *)
(* source is items[i + 1] here.                                            *)
(***************************************************************************)
EXTENDS Integers, Sequences, FiniteSets, TLC

(* ---------------------------------------------------------------------- *)
(* Bounds of the model                                                     *)
(* ---------------------------------------------------------------------- *)
\* longest item list of the general specification
MaxItems == 5
\* largest number of terminal rows reported by shutil.get_terminal_size()
MaxLines == 8
\* how far outside [0, len(items)-1] a caller's default_index may lie
DefaultSlack == 2
\* longest title and longest item text of the printing specification
MaxText == 4
\* widest terminal of the printing specification
MaxColumns == 5
\* longest item list of the printing specification
MaxPrintItems == 2
\* most keys pressed in the key reading specification
MaxPresses == 2
\* longest item list of the long-list specification (the 20-item case)
LongItems == 20
\* most reads of an exhausted standard input that get_cursor_pos is followed through
MaxReads == 3

(* ---------------------------------------------------------------------- *)
(* Program constants                                                       *)
(* ---------------------------------------------------------------------- *)
extra_lines == 3

YES == "Yes"
NO == "No"

\* what terminal.read_key() hands to _handle_input: the eight keys the menu
\* interprets, and "Other" for every other value (Left, Right, letters, b"").
Keys == {"Return", "Escape", "Up", "Down", "PageUp", "PageDown", "Home", "End", "Other"}
NavKeys == {"Up", "Down", "PageUp", "PageDown", "Home", "End"}

VARIABLES
    entry,          \* how the menu was made: "TerminalMenu", "show_menu", "show_prompt"
    items,          \* TerminalMenu.items
    default_index,  \* TerminalMenu.default_index
    focus_index,    \* TerminalMenu._focus_index
    scroll_index,   \* TerminalMenu._scroll_index
    lines,          \* rows of the live terminal (shutil.get_terminal_size().lines)
    menu_height,    \* menu_size.height of the frame on the screen
    pc,             \* "idle", "input", "cursor_pos", "returned", "raised"
    frame,          \* 0 before show(); 1 in the first frame of a call; 2 afterwards
    key,            \* the key handled last in this call of show(), or "none"
    result,         \* <<>> or <<item>>: what show() returned
    exc,            \* the exception that left show(), or "none"
    default_no,     \* show_prompt's argument
    prompt_result,  \* <<>> or <<b>>: what show_prompt returned
    prompt_exc,     \* the exception that left show_prompt, or "none"
    cursor_visible, \* whether the terminal shows its text cursor
    blank_lines,    \* print() calls of the finally of show() in the current call
    stdin_buf,      \* characters the terminal has sent to sys.stdin, not yet read
    stdin_eof,      \* whether sys.stdin is at end of file once stdin_buf is empty
    cpr_result,     \* get_cursor_pos: the local variable result
    reads,          \* get_cursor_pos: reads that returned "" so far
    wizard,         \* where main() / run_wizard() is, "none" when the menu has another caller
    main_exc,       \* the exception that reached the try statement of main()
    main_printed,   \* <<>> or <<text>>: what the except clauses of main() printed
    exit_status,    \* <<>> or <<status>>: the exit status of the process
    title,          \* TerminalMenu.title, as a sequence of characters
    columns,        \* columns of the live terminal (shutil.get_terminal_size().columns)
    printed,        \* the frame printed last: its menu_size.width, title line and item lines
    pressed,        \* the keys the user has pressed, in order
    win_in,         \* bytes waiting in the Windows console for msvcrt.getch()
    tty_in,         \* bytes waiting in the input queue of the tty
    tty_pc,         \* termios read_key: "idle" between calls, "reading" inside os.read
    win_keys,       \* what the calls of the msvcrt read_key returned, by key name
    tty_keys        \* what the calls of the termios read_key returned, by key name

\* the state of get_cursor_pos and of sys.stdin
cursor_report_vars == <<stdin_buf, stdin_eof, cpr_result, reads>>

\* the state of main() and run_wizard()
wizard_vars == <<wizard, main_exc, main_printed, exit_status>>

\* what _print_menu reads and writes besides the items
print_vars == <<title, columns, printed>>

\* the keyboard and the two read_key implementations
key_vars == <<pressed, win_in, tty_in, tty_pc, win_keys, tty_keys>>

\* the screen and the keyboard
device_vars == <<print_vars, key_vars>>

\* the state of the callers of the menu and of the devices
outer_vars == <<wizard_vars, device_vars>>

vars == <<entry, items, default_index, focus_index, scroll_index, lines,
          menu_height, pc, frame, key, result, exc, default_no, prompt_result,
          prompt_exc, cursor_visible, blank_lines, cursor_report_vars, outer_vars>>

(* ---------------------------------------------------------------------- *)
(* Pure helpers                                                            *)
(* ---------------------------------------------------------------------- *)
Min(a, b) == IF a < b THEN a ELSE b
Max(a, b) == IF a > b THEN a ELSE b

\* an item list of n distinct opaque items
ItemList(n) == [i \in 1..n |-> "item" \o ToString(i - 1)]

\* Python's list indexing: seq[i] raises IndexError unless -len <= i < len,
\* and a negative index counts from the end.
PyIndexOk(seq, i) == (0 - Len(seq)) <= i /\ i < Len(seq)
PyIndex(seq, i) == seq[(i % Len(seq)) + 1]

\* _get_menu_size: height of the menu for a terminal of l rows
MenuHeight(l) == l - extra_lines

\* _get_display_count
DisplayCount(n, height) == Min(n, height)

\* scrolling down without the bound min(items_count - 1, ...)
GetScrollIndex_NoMin(n, height, focus, scroll) ==
    LET display_count == DisplayCount(n, height)
        last_displayed == scroll + display_count - 1
    IN  IF n < display_count THEN 0
        ELSE IF focus <= scroll THEN Max(0, focus - 1)
        ELSE IF focus >= last_displayed THEN (focus + 1) - (display_count - 1)
        ELSE scroll

\* _get_scroll_index
GetScrollIndex(n, height, focus, scroll) ==
    LET display_count == DisplayCount(n, height)
        first_displayed == scroll
        last_displayed == first_displayed + display_count - 1
    IN  IF n < display_count THEN 0
        ELSE IF focus <= first_displayed THEN Max(0, focus - 1)
        ELSE IF focus >= last_displayed
             THEN Min(n - 1, focus + 1) - (display_count - 1)
        ELSE scroll

\* _print_menu: the loop reads items[scroll + row] for every row; it completes
\* iff none of these raises IndexError.
PrintMenuOk(seq, height, scroll) ==
    \A row \in 0..(DisplayCount(Len(seq), height) - 1) : PyIndexOk(seq, scroll + row)

\* a clamp that has lost its lower bound
ClampFocus_NoLower(f, n) == Min(f, n - 1)

\* the clamp at the end of _handle_input
ClampFocus(f, n) == Min(Max(0, f), n - 1)

\* paging by the rows of the terminal instead of the rows of the menu
MoveFocus_PageByLines(k, focus, n, height) ==
    CASE k = "Up" -> focus - 1
      [] k = "Down" -> focus + 1
      [] k = "PageUp" -> focus - (height + extra_lines)
      [] k = "PageDown" -> focus + (height + extra_lines)
      [] k = "Home" -> 0
      [] k = "End" -> n - 1
      [] OTHER -> focus

\* the if/elif chain of _handle_input
MoveFocus(k, focus, n, height) ==
    CASE k = "Up" -> focus - 1
      [] k = "Down" -> focus + 1
      [] k = "PageUp" -> focus - height
      [] k = "PageDown" -> focus + height
      [] k = "Home" -> 0
      [] k = "End" -> n - 1
      [] OTHER -> focus

\* show_prompt: the default_index handed to show_menu
PromptDefaultIndex(dn) == IF dn THEN 1 ELSE 0

\* a show_prompt that answers yes when the menu is cancelled
ShowPrompt_result_CancelYes(ent, res, ex) ==
    IF ent # "show_prompt" THEN <<>>
    ELSE IF ex = "StopMenu" THEN <<TRUE>>
    ELSE IF ex = "none" /\ res # <<>> THEN <<res[1] = YES>>
    ELSE <<>>

\* show_prompt: what it returns when show_menu returned res (<<>> while the
\* menu is open) or raised ex; only StopMenu is caught.
ShowPrompt_result(ent, res, ex) ==
    IF ent # "show_prompt" THEN <<>>
    ELSE IF ex = "StopMenu" THEN <<FALSE>>
    ELSE IF ex = "none" /\ res # <<>> THEN <<res[1] = YES>>
    ELSE <<>>

\* show_prompt: the exception that leaves it when show_menu raised ex
ShowPrompt_exc(ent, ex) ==
    IF ent = "show_prompt" /\ ex # "StopMenu" THEN ex ELSE "none"

\* a _handle_input without the Escape test
KeyOutcome_EscapeIgnored(k) ==
    CASE k = "Return" -> "return"
      [] OTHER -> "continue"

\* _handle_input, lines 111-115: what a key does to the loop
KeyOutcome(k) ==
    CASE k = "Return" -> "return"
      [] k = "Escape" -> "StopMenu"
      [] OTHER -> "continue"

\* what a terminal may have sent to sys.stdin when get_cursor_pos starts to
\* read: a whole cursor position report ESC [ row ; col R, a report cut short,
\* text that ends in R without being a report, or nothing
CursorReports ==
    { <<"ESC", "[", "7", ";", "1", "R">>,
      <<"ESC", "[", "7">>,
      <<"x", "R">>,
      <<>> }
Digits == {"1", "7"}

\* str.removeprefix("\x1b[") and str.removesuffix("R")
RemovePrefix(t) ==
    IF Len(t) >= 2 /\ t[1] = "ESC" /\ t[2] = "[" THEN SubSeq(t, 3, Len(t)) ELSE t
RemoveSuffix(t) ==
    IF Len(t) >= 1 /\ t[Len(t)] = "R" THEN SubSeq(t, 1, Len(t) - 1) ELSE t

\* str.partition(";"): the text before and after the first ";"
PartitionRow(t) ==
    IF \E i \in 1..Len(t) : t[i] = ";"
    THEN SubSeq(t, 1, (CHOOSE i \in 1..Len(t) : t[i] = ";" /\ \A j \in 1..(i - 1) : t[j] # ";") - 1)
    ELSE t
PartitionCol(t) ==
    IF \E i \in 1..Len(t) : t[i] = ";"
    THEN SubSeq(t, (CHOOSE i \in 1..Len(t) : t[i] = ";" /\ \A j \in 1..(i - 1) : t[j] # ";") + 1, Len(t))
    ELSE <<>>

\* int(text) succeeds (otherwise it raises ValueError)
IsInt(t) == Len(t) >= 1 /\ \A i \in 1..Len(t) : t[i] \in Digits

\* get_cursor_pos, lines 191-192: the text read parses as (row, col)
CursorReportOk(t) ==
    LET body == RemoveSuffix(RemovePrefix(t))
    IN  IsInt(PartitionRow(body)) /\ IsInt(PartitionCol(body))

\* get_cursor_pos, line 188: the loop ends when result ends with "R";
\* t is result after the read, c what the read returned (<<>> at end of file)
ReadLoopEnds(t, c) == Len(t) >= 1 /\ t[Len(t)] = "R"

\* a show() whose cleanup runs only when the loop ends with a return or StopMenu
BlankLines_NotOnError(how) == IF how \in {"returned", "StopMenu"} THEN 1 ELSE 0

\* show(), finally: print(): one blank line on every way out of show().
\* how: "running" while the loop goes on, "returned", or the exception raised.
BlankLines(how) == IF how = "running" THEN 0 ELSE 1

\* hide_cursor: the cursor is hidden while the body of the with statement
\* runs and shown again by its finally on every way out.
CursorVisible(how) == how # "running"

(* ---------------------------------------------------------------------- *)
(* One display frame: steps 1-3 of the loop of show()                      *)
(* ---------------------------------------------------------------------- *)
\* menu_size is taken from the live terminal, the scroll index is updated
\* and the menu is printed; an IndexError of _print_menu leaves show().
\* its: the items, focus: _focus_index, scroll: _scroll_index before the frame.
DrawFrame(ent, its, focus, scroll) ==
    LET height == MenuHeight(lines)
        new_scroll == GetScrollIndex(Len(its), height, focus, scroll)
        raised == IF PrintMenuOk(its, height, new_scroll) THEN "none" ELSE "IndexError"
    IN  /\ menu_height' = height
        /\ scroll_index' = new_scroll
        /\ pc' = (IF raised = "none" THEN "input" ELSE "raised")
        /\ exc' = raised
        /\ prompt_result' = ShowPrompt_result(ent, <<>>, raised)
        /\ prompt_exc' = ShowPrompt_exc(ent, raised)
        /\ cursor_visible' = CursorVisible(IF raised = "none" THEN "running" ELSE raised)
        /\ blank_lines' = BlankLines(IF raised = "none" THEN "running" ELSE raised)

(* ---------------------------------------------------------------------- *)
(* Initial state: a TerminalMenu has been constructed                      *)
(* ---------------------------------------------------------------------- *)
Defaults(n) == (0 - DefaultSlack)..(n - 1 + DefaultSlack)

\* the terminal before show() is called: cursor shown, nothing sent to stdin
InitTerminal ==
    /\ cursor_visible = TRUE
    /\ blank_lines = 0
    /\ stdin_buf = <<>>
    /\ stdin_eof = FALSE
    /\ cpr_result = <<>>
    /\ reads = 0

\* no exception
NoException == [type |-> "none", message |-> "", cause |-> "none"]

\* no key has been pressed and read_key has not been called
InitKeys ==
    /\ pressed = <<>>
    /\ win_in = <<>>
    /\ tty_in = <<>>
    /\ tty_pc = "idle"
    /\ win_keys = <<>>
    /\ tty_keys = <<>>

\* no frame has been printed
NoFrame == [width |-> 0, title |-> <<>>, rows |-> <<>>]

\* a terminal of MaxColumns columns on which nothing is printed, for a menu
\* without title text
InitDevices ==
    /\ title = <<>>
    /\ columns = MaxColumns
    /\ printed = NoFrame
    /\ InitKeys

\* the menu is not called from the wizard
InitOuter ==
    /\ wizard = "none"
    /\ main_exc = NoException
    /\ main_printed = <<>>
    /\ exit_status = <<>>
    /\ InitDevices

Init ==
    /\ entry = "TerminalMenu"
    /\ \E n \in 1..MaxItems : items = ItemList(n)
    /\ default_index \in Defaults(Len(items))
    /\ focus_index = 0
    /\ scroll_index = 0
    /\ lines \in 1..MaxLines
    /\ menu_height = MenuHeight(lines)
    /\ pc = "idle"
    /\ frame = 0
    /\ key = "none"
    /\ result = <<>>
    /\ exc = "none"
    /\ default_no = FALSE
    /\ prompt_result = <<>>
    /\ prompt_exc = "none"
    /\ InitTerminal
    /\ InitOuter

(* ---------------------------------------------------------------------- *)
(* Actions                                                                 *)
(* ---------------------------------------------------------------------- *)
\* TerminalMenu.show() is called on the existing object, up to the first
\* read_key().
Show ==
    /\ entry = "TerminalMenu"
    /\ pc # "input"
    /\ focus_index' = default_index
    /\ DrawFrame(entry, items, default_index, scroll_index)
    /\ frame' = 1
    /\ key' = "none"
    /\ result' = <<>>
    /\ UNCHANGED <<entry, items, default_index, lines, default_no, cursor_report_vars, outer_vars>>

\* show_menu(title, items, default_index=d): a new TerminalMenu (__init__
\* sets _focus_index and _scroll_index to 0) and its show()
ShowMenu(n, d) ==
    /\ pc # "input"
    /\ entry' = "show_menu"
    /\ items' = ItemList(n)
    /\ default_index' = d
    /\ focus_index' = d
    /\ DrawFrame("show_menu", ItemList(n), d, 0)
    /\ frame' = 1
    /\ key' = "none"
    /\ result' = <<>>
    /\ default_no' = FALSE
    /\ UNCHANGED <<lines, cursor_report_vars, outer_vars>>

\* show_prompt(prompt, default_no=dn), up to the first read_key()
ShowPrompt(dn) ==
    /\ pc # "input"
    /\ entry' = "show_prompt"
    /\ default_no' = dn
    /\ items' = <<YES, NO>>
    /\ default_index' = PromptDefaultIndex(dn)
    /\ focus_index' = PromptDefaultIndex(dn)
    /\ DrawFrame("show_prompt", <<YES, NO>>, PromptDefaultIndex(dn), 0)
    /\ frame' = 1
    /\ key' = "none"
    /\ result' = <<>>
    /\ UNCHANGED <<lines, cursor_report_vars, outer_vars>>

\* read_key() returns k: _handle_input(menu_size) and, when the loop goes on,
\* _reset_cursor_to_top (the terminal answers the position query at once
\* with a well-formed report) and the next frame; when it ends, the return
\* or the exception passes through show_menu and show_prompt.
HandleKey(k) ==
    /\ pc = "input"
    /\ key' = k
    /\ IF KeyOutcome(k) = "return"
       THEN /\ IF PyIndexOk(items, focus_index)
               THEN /\ pc' = "returned"
                    /\ result' = <<PyIndex(items, focus_index)>>
                    /\ exc' = "none"
               ELSE /\ pc' = "raised"
                    /\ result' = <<>>
                    /\ exc' = "IndexError"
            /\ prompt_result' = ShowPrompt_result(entry, result', exc')
            /\ prompt_exc' = ShowPrompt_exc(entry, exc')
            /\ cursor_visible' = CursorVisible(IF exc' = "none" THEN "returned" ELSE exc')
            /\ blank_lines' = BlankLines(IF exc' = "none" THEN "returned" ELSE exc')
            /\ UNCHANGED <<focus_index, scroll_index, menu_height, frame>>
       ELSE IF KeyOutcome(k) = "StopMenu"
       THEN /\ pc' = "raised"
            /\ exc' = "StopMenu"
            /\ prompt_result' = ShowPrompt_result(entry, <<>>, "StopMenu")
            /\ prompt_exc' = ShowPrompt_exc(entry, "StopMenu")
            /\ cursor_visible' = CursorVisible("StopMenu")
            /\ blank_lines' = BlankLines("StopMenu")
            /\ UNCHANGED <<focus_index, scroll_index, menu_height, frame, result>>
       ELSE /\ focus_index' = ClampFocus(MoveFocus(k, focus_index, Len(items), menu_height),
                                         Len(items))
            /\ DrawFrame(entry, items, focus_index', scroll_index)
            /\ frame' = 2
            /\ UNCHANGED result
    /\ UNCHANGED <<entry, items, default_index, lines, default_no, cursor_report_vars, outer_vars>>

\* Ctrl+C while show() waits for input: read_key (or the read of
\* get_cursor_pos) raises KeyboardInterrupt, which leaves show()
Interrupt ==
    /\ pc \in {"input", "cursor_pos"}
    /\ pc' = "raised"
    /\ exc' = "KeyboardInterrupt"
    /\ prompt_result' = ShowPrompt_result(entry, <<>>, "KeyboardInterrupt")
    /\ prompt_exc' = ShowPrompt_exc(entry, "KeyboardInterrupt")
    /\ cursor_visible' = CursorVisible("KeyboardInterrupt")
    /\ blank_lines' = BlankLines("KeyboardInterrupt")
    /\ UNCHANGED <<entry, items, default_index, focus_index, scroll_index, lines,
                   menu_height, frame, key, result, default_no, cursor_report_vars, outer_vars>>

\* read_key() returns a key k that keeps the loop going, in a terminal whose
\* answer to the position query is not (yet) complete: _handle_input, then
\* _reset_cursor_to_top and get_cursor_pos up to its first sys.stdin.read(1).
\* report: what the terminal has sent; eof: whether stdin ends after it.
HandleKeyAwaitReport(k, report, eof) ==
    /\ pc = "input"
    /\ KeyOutcome(k) = "continue"
    /\ key' = k
    /\ focus_index' = ClampFocus(MoveFocus(k, focus_index, Len(items), menu_height),
                                 Len(items))
    /\ pc' = "cursor_pos"
    /\ stdin_buf' = report
    /\ stdin_eof' = eof
    /\ cpr_result' = <<>>
    /\ reads' = 0
    /\ UNCHANGED <<entry, items, default_index, scroll_index, lines, menu_height,
                   frame, result, exc, default_no, prompt_result, prompt_exc,
                   cursor_visible, blank_lines, outer_vars>>

\* one iteration of the loop of get_cursor_pos: result += sys.stdin.read(1).
\* The read blocks while stdin is open and empty; at end of file it returns "".
\* When result ends with "R" it is parsed: a ValueError leaves show(), a
\* position lets _reset_cursor_to_top finish and the next frame is drawn.
GetCursorPosRead ==
    /\ pc = "cursor_pos"
    /\ (stdin_buf # <<>> \/ stdin_eof)
    /\ LET c == IF stdin_buf # <<>> THEN <<Head(stdin_buf)>> ELSE <<>>
           new_result == cpr_result \o c
       IN  /\ stdin_buf' = (IF stdin_buf # <<>> THEN Tail(stdin_buf) ELSE <<>>)
           /\ IF ~ReadLoopEnds(new_result, c)
              THEN /\ (c = <<>> => reads < MaxReads)
                   /\ cpr_result' = new_result
                   /\ reads' = (IF c = <<>> THEN reads + 1 ELSE reads)
                   /\ UNCHANGED <<scroll_index, menu_height, pc, frame, exc,
                                  prompt_result, prompt_exc, cursor_visible,
                                  blank_lines>>
              ELSE /\ cpr_result' = <<>>
                   /\ reads' = 0
                   /\ IF CursorReportOk(new_result)
                      THEN /\ DrawFrame(entry, items, focus_index, scroll_index)
                           /\ frame' = 2
                      ELSE /\ pc' = "raised"
                           /\ exc' = "ValueError"
                           /\ prompt_result' = ShowPrompt_result(entry, <<>>, exc')
                           /\ prompt_exc' = ShowPrompt_exc(entry, exc')
                           /\ cursor_visible' = CursorVisible(exc')
                           /\ blank_lines' = BlankLines(exc')
                           /\ UNCHANGED <<scroll_index, menu_height, frame>>
    /\ UNCHANGED <<entry, items, default_index, focus_index, lines, key, result,
                   default_no, stdin_eof, outer_vars>>

\* the user resizes the terminal window
Resize(l) ==
    /\ l # lines
    /\ lines' = l
    /\ UNCHANGED <<entry, items, default_index, focus_index, scroll_index,
                   menu_height, pc, frame, key, result, exc, default_no,
                   prompt_result, prompt_exc, cursor_visible, blank_lines,
                   cursor_report_vars, outer_vars>>

Next ==
    \/ Show
    \/ \E n \in 1..MaxItems : \E d \in Defaults(n) : ShowMenu(n, d)
    \/ \E dn \in BOOLEAN : ShowPrompt(dn)
    \/ \E k \in Keys : HandleKey(k)
    \/ \E l \in 1..MaxLines : Resize(l)

Spec == Init /\ [][Next]_vars

(* ---------------------------------------------------------------------- *)
(* Long lists: one TerminalMenu object with up to LongItems items and      *)
(* default_index 0, shown in a terminal that may be resized                *)
(* ---------------------------------------------------------------------- *)
InitLong ==
    /\ entry = "TerminalMenu"
    /\ \E n \in 1..LongItems : items = ItemList(n)
    /\ default_index = 0
    /\ focus_index = 0
    /\ scroll_index = 0
    /\ lines \in 1..MaxLines
    /\ menu_height = MenuHeight(lines)
    /\ pc = "idle"
    /\ frame = 0
    /\ key = "none"
    /\ result = <<>>
    /\ exc = "none"
    /\ default_no = FALSE
    /\ prompt_result = <<>>
    /\ prompt_exc = "none"
    /\ InitTerminal
    /\ InitOuter

NextLong ==
    \/ Show
    \/ \E k \in Keys : HandleKey(k)
    \/ \E l \in 1..MaxLines : Resize(l)

SpecLong == InitLong /\ [][NextLong]_vars

(* ---------------------------------------------------------------------- *)
(* The ways out of show(): a TerminalMenu object in a terminal that may    *)
(* be interrupted and may fail to report the cursor position               *)
(* ---------------------------------------------------------------------- *)
\* a TerminalMenu whose default_index is a valid index or one past the end,
\* in a terminal with room for at least one menu row
InitTerm ==
    /\ entry = "TerminalMenu"
    /\ \E n \in 1..MaxItems : items = ItemList(n)
    /\ default_index \in 0..Len(items)
    /\ focus_index = 0
    /\ scroll_index = 0
    /\ lines \in (extra_lines + 1)..MaxLines
    /\ menu_height = MenuHeight(lines)
    /\ pc = "idle"
    /\ frame = 0
    /\ key = "none"
    /\ result = <<>>
    /\ exc = "none"
    /\ default_no = FALSE
    /\ prompt_result = <<>>
    /\ prompt_exc = "none"
    /\ InitTerminal
    /\ InitOuter

NextTerm ==
    \/ Show
    \/ \E k \in Keys : HandleKey(k)
    \/ Interrupt
    \/ \E k \in Keys : \E report \in CursorReports : \E eof \in BOOLEAN :
            HandleKeyAwaitReport(k, report, eof)
    \/ GetCursorPosRead

SpecTerm == InitTerm /\ [][NextTerm]_vars

(* ---------------------------------------------------------------------- *)
(* The wizard: main() and run_wizard() with the menus and the input() of   *)
(* select_repo, select_keyboard and the "Continue?" prompt.  The           *)
(* repository has its required files and the keyboard picked is a board.   *)
(* ---------------------------------------------------------------------- *)
\* every variable of the menu but the size of the terminal and sys.stdin
menu_vars == <<entry, items, default_index, focus_index, scroll_index,
               menu_height, pc, frame, key, result, exc, default_no,
               prompt_result, prompt_exc, cursor_visible, blank_lines>>

\* _should_use_current_directory: the items of its menu
EDIT == "Edit this repo"
CLONE == "Clone a new repo here"
CANCEL == "Cancel"

\* what the user may answer to input("Repo URL: "): nothing, the URL of a
\* repository that can be cloned, a URL that cannot, end of file, Ctrl+C
RepoUrlAnswers == {"", "good url", "bad url", "EOF", "Ctrl+C"}

\* exceptions as they are raised; cause tells what the user or the system did
StopWizard(message, cause) == [type |-> "StopWizard", message |-> message, cause |-> cause]
MenuException(ex) ==
    [type |-> ex, message |-> "",
     cause |-> CASE ex = "StopMenu" -> "escape"
                 [] ex = "KeyboardInterrupt" -> "interrupt"
                 [] OTHER -> "failure"]

\* main(), the except clauses: what is printed for the exception ex
MainPrinted(ex) ==
    IF ex.type \in {"KeyboardInterrupt", "EOFError", "StopMenu"} THEN <<"Canceled.">>
    ELSE IF ex.type = "StopWizard" THEN <<ex.message>>
    ELSE <<"Traceback">>

\* main(): sys.exit(1) in both except clauses; an uncaught exception ends the
\* interpreter with status 1
MainStatus(ex) == 1

\* the exception ex leaves run_wizard and reaches main()
ExitWith(ex) ==
    /\ wizard' = "exited"
    /\ main_exc' = ex
    /\ main_printed' = MainPrinted(ex)
    /\ exit_status' = <<MainStatus(ex)>>

\* show_menu / show_prompt called from the wizard, up to the first read_key()
CallShowMenu(ent, its, d, dn) ==
    /\ entry' = ent
    /\ items' = its
    /\ default_index' = d
    /\ focus_index' = d
    /\ DrawFrame(ent, its, d, 0)
    /\ frame' = 1
    /\ key' = "none"
    /\ result' = <<>>
    /\ default_no' = dn

\* main() up to the first point where run_wizard waits for the user:
\* check_dependencies and select_repo.  deps_ok: Git is installed and
\* configured; where: a repo path was given, the current directory is a ZMK
\* config repo, is another Git repo, or is no repo
RunWizard(deps_ok, where) ==
    /\ wizard = "main"
    /\ IF ~deps_ok
       THEN /\ ExitWith(StopWizard("This script requires Git.", "failure"))
            /\ UNCHANGED menu_vars
       ELSE IF where \in {"repo_path", "zmk_repo"}
       THEN /\ wizard' = "repo_selected"
            /\ UNCHANGED <<main_exc, main_printed, exit_status, menu_vars>>
       ELSE IF where = "other_repo"
       THEN /\ wizard' = "repo_menu"
            /\ CallShowMenu("show_menu", <<EDIT, CLONE, CANCEL>>, 0, FALSE)
            /\ UNCHANGED <<main_exc, main_printed, exit_status>>
       ELSE /\ wizard' = "repo_url"
            /\ UNCHANGED <<main_exc, main_printed, exit_status, menu_vars>>
    /\ UNCHANGED <<lines, cursor_report_vars, device_vars>>

\* _should_use_current_directory after show_menu returned or raised
ShouldUseCurrentDirectoryDone ==
    /\ wizard = "repo_menu"
    /\ pc \in {"returned", "raised"}
    /\ IF pc = "raised" THEN ExitWith(MenuException(exc))
       ELSE IF result[1] = EDIT
       THEN /\ wizard' = "repo_selected"
            /\ UNCHANGED <<main_exc, main_printed, exit_status>>
       ELSE IF result[1] = CLONE
       THEN /\ wizard' = "repo_url"
            /\ UNCHANGED <<main_exc, main_printed, exit_status>>
       ELSE ExitWith(StopWizard("", "cancel_item"))
    /\ UNCHANGED <<menu_vars, lines, cursor_report_vars, device_vars>>

\* _clone_repo: input("Repo URL: ") returns or raises, then Repo.clone
InputRepoUrl(answer) ==
    /\ wizard = "repo_url"
    /\ CASE answer = "Ctrl+C" ->
              ExitWith([type |-> "KeyboardInterrupt", message |-> "", cause |-> "interrupt"])
         [] answer = "EOF" ->
              ExitWith([type |-> "EOFError", message |-> "", cause |-> "eof"])
         [] answer = "" ->
              ExitWith(StopWizard("", "empty_input"))
         [] answer = "bad url" ->
              ExitWith(StopWizard("Command 'git clone' returned non-zero exit status", "failure"))
         [] OTHER ->
              /\ wizard' = "repo_selected"
              /\ UNCHANGED <<main_exc, main_printed, exit_status>>
    /\ UNCHANGED <<menu_vars, lines, cursor_report_vars, device_vars>>

\* run_wizard from the checks of the repo to the menu of select_keyboard.
\* state: the repo is fine, is no Git repo, or has local changes;
\* n: the number of keyboards offered
CheckRepo(state, n) ==
    /\ wizard = "repo_selected"
    /\ IF state = "not_repo"
       THEN /\ ExitWith(StopWizard("is not a Git repo.", "failure"))
            /\ UNCHANGED menu_vars
       ELSE IF state = "has_changes"
       THEN /\ ExitWith(StopWizard("You have local changes in this repo.", "failure"))
            /\ UNCHANGED menu_vars
       ELSE /\ wizard' = "keyboard_menu"
            /\ CallShowMenu("show_menu", ItemList(n), 0, FALSE)
            /\ UNCHANGED <<main_exc, main_printed, exit_status>>
    /\ UNCHANGED <<lines, cursor_report_vars, device_vars>>

\* select_keyboard after show_menu returned or raised, then
\* print_pending_changes and show_prompt("Continue?") up to its first read_key()
SelectKeyboardDone ==
    /\ wizard = "keyboard_menu"
    /\ pc \in {"returned", "raised"}
    /\ IF pc = "raised"
       THEN /\ ExitWith(MenuException(exc))
            /\ UNCHANGED menu_vars
       ELSE /\ wizard' = "continue_prompt"
            /\ CallShowMenu("show_prompt", <<YES, NO>>, PromptDefaultIndex(FALSE), FALSE)
            /\ UNCHANGED <<main_exc, main_printed, exit_status>>
    /\ UNCHANGED <<lines, cursor_report_vars, device_vars>>

\* run_wizard after show_prompt("Continue?") returned or raised, then
\* apply_changes and commit_and_push_changes.  push_ok: git push succeeds
ContinueDone(push_ok) ==
    /\ wizard = "continue_prompt"
    /\ pc \in {"returned", "raised"}
    /\ IF prompt_exc # "none" THEN ExitWith(MenuException(prompt_exc))
       ELSE IF prompt_result # <<TRUE>> THEN ExitWith(StopWizard("", "declined"))
       ELSE IF ~push_ok THEN ExitWith(StopWizard("Failed to push", "failure"))
       ELSE /\ wizard' = "exited"
            /\ exit_status' = <<0>>
            /\ UNCHANGED <<main_exc, main_printed>>
    /\ UNCHANGED <<menu_vars, lines, cursor_report_vars, device_vars>>

InitWizard ==
    /\ entry = "show_menu"
    /\ items = <<>>
    /\ default_index = 0
    /\ focus_index = 0
    /\ scroll_index = 0
    /\ lines \in (extra_lines + 1)..MaxLines
    /\ menu_height = MenuHeight(lines)
    /\ pc = "idle"
    /\ frame = 0
    /\ key = "none"
    /\ result = <<>>
    /\ exc = "none"
    /\ default_no = FALSE
    /\ prompt_result = <<>>
    /\ prompt_exc = "none"
    /\ InitTerminal
    /\ InitDevices
    /\ wizard = "main"
    /\ main_exc = NoException
    /\ main_printed = <<>>
    /\ exit_status = <<>>

NextWizard ==
    \/ \E deps_ok \in BOOLEAN :
       \E where \in {"repo_path", "zmk_repo", "other_repo", "no_repo"} :
            RunWizard(deps_ok, where)
    \/ ShouldUseCurrentDirectoryDone
    \/ \E answer \in RepoUrlAnswers : InputRepoUrl(answer)
    \/ \E state \in {"ok", "not_repo", "has_changes"} : \E n \in 1..MaxItems :
            CheckRepo(state, n)
    \/ SelectKeyboardDone
    \/ \E push_ok \in BOOLEAN : ContinueDone(push_ok)
    \/ \E k \in Keys : HandleKey(k)
    \/ Interrupt

SpecWizard == InitWizard /\ [][NextWizard]_vars

(* ---------------------------------------------------------------------- *)
(* Printing: _print_menu and _print_item for titles and item texts of      *)
(* every length up to MaxText in terminals of every width up to MaxColumns *)
(* ---------------------------------------------------------------------- *)
\* a text of n characters; an item of this specification is its own text
\* (the formatter is str)
Text(n) == [i \in 1..n |-> ToString(i % 10)]

\* the escape sequence "\x1b[" + color + "m" as one element of a line; it
\* occupies no character cell
Sgr(color) == "ESC[" \o color \o "m"
GREEN == "32"
IsSgr(c) == c \in {Sgr(GREEN), Sgr("0")}

\* terminal.colorize
Colorize(text, color) == <<Sgr(color)>> \o text \o <<Sgr("0")>>

\* text[0 : width]
Truncate(text, width) == SubSeq(text, 1, Min(Len(text), width))

\* text.ljust(width)
LJust(text, width) == text \o [i \in 1..(width - Len(text)) |-> " "]

\* _print_item: the line printed for an item with text `text`
PrintItem(text, focused, width) ==
    LET color == IF focused THEN GREEN ELSE "0"
        indent == IF focused THEN <<">", " ">> ELSE <<" ", " ">>
    IN  Colorize(LJust(Truncate(indent \o text, width), width), color)

\* _print_menu, line 84: print(self.title)
PrintTitle(text, width) == text

\* _print_menu: the lines of one frame
PrintMenu(ttl, its, width, height, focus, scroll) ==
    [width |-> width,
     title |-> PrintTitle(ttl, width),
     rows |-> [row \in 1..Max(0, DisplayCount(Len(its), height)) |->
                  PrintItem(its[scroll + row], scroll + row - 1 = focus, width)]]

\* the character cells a printed line occupies
RECURSIVE Cells(_)
Cells(line) ==
    IF line = <<>> THEN 0
    ELSE (IF IsSgr(Head(line)) THEN 0 ELSE 1) + Cells(Tail(line))

\* the characters of a printed line without the colour codes
RECURSIVE Visible(_)
Visible(line) ==
    IF line = <<>> THEN <<>>
    ELSE (IF IsSgr(Head(line)) THEN <<>> ELSE <<Head(line)>>) \o Visible(Tail(line))

\* one pass of the loop of show() with the focus moved to item f: menu_size
\* is read from the live terminal, the scroll index updated, the menu printed
PrintFrame(f) ==
    /\ f \in 0..(Len(items) - 1)
    /\ focus_index' = f
    /\ menu_height' = MenuHeight(lines)
    /\ scroll_index' = GetScrollIndex(Len(items), menu_height', f, scroll_index)
    /\ PrintMenuOk(items, menu_height', scroll_index')
    /\ printed' = PrintMenu(title, items, columns, menu_height', f, scroll_index')
    /\ printed' # printed
    /\ UNCHANGED <<entry, items, default_index, lines, pc, frame, key, result, exc,
                   default_no, prompt_result, prompt_exc, cursor_visible,
                   blank_lines, cursor_report_vars, wizard_vars, title, columns,
                   key_vars>>

\* the user changes the width of the terminal window
ResizeColumns(c) ==
    /\ c # columns
    /\ columns' = c
    /\ UNCHANGED <<entry, items, default_index, focus_index, scroll_index, lines,
                   menu_height, pc, frame, key, result, exc, default_no,
                   prompt_result, prompt_exc, cursor_visible, blank_lines,
                   cursor_report_vars, wizard_vars, title, printed, key_vars>>

InitPrint ==
    /\ entry = "TerminalMenu"
    /\ \E n \in 1..MaxPrintItems :
            items \in [1..n -> {Text(l) : l \in 0..MaxText}]
    /\ default_index = 0
    /\ focus_index = 0
    /\ scroll_index = 0
    /\ lines \in (extra_lines + 1)..(extra_lines + MaxPrintItems)
    /\ menu_height = MenuHeight(lines)
    /\ pc = "idle"
    /\ frame = 0
    /\ key = "none"
    /\ result = <<>>
    /\ exc = "none"
    /\ default_no = FALSE
    /\ prompt_result = <<>>
    /\ prompt_exc = "none"
    /\ InitTerminal
    /\ wizard = "none"
    /\ main_exc = NoException
    /\ main_printed = <<>>
    /\ exit_status = <<>>
    /\ title \in {Text(l) : l \in 0..MaxText}
    /\ columns \in 1..MaxColumns
    /\ printed = NoFrame
    /\ InitKeys

NextPrint ==
    \/ \E f \in 0..(MaxPrintItems - 1) : PrintFrame(f)
    \/ \E c \in 1..MaxColumns : ResizeColumns(c)

SpecPrint == InitPrint /\ [][NextPrint]_vars

(* ---------------------------------------------------------------------- *)
(* Reading keys: the msvcrt and the termios implementation of read_key,    *)
(* fed by one keyboard.  Bytes are numbers; a key is pressed on a Windows  *)
(* console and on an xterm-compatible terminal at once.                    *)
(* ---------------------------------------------------------------------- *)
\* the key constants of terminal.py
ESCAPE == <<27>>
RETURN == <<10>>
UP == <<27, 91, 65>>
DOWN == <<27, 91, 66>>
RIGHT == <<27, 91, 67>>
LEFT == <<27, 91, 68>>
END == <<27, 91, 70>>
HOME == <<27, 91, 72>>
PAGE_UP == <<27, 91, 53, 126>>
PAGE_DOWN == <<27, 91, 54, 126>>

\* the name of the key constant a value returned by read_key is equal to, as
\* _handle_input compares it; "Other" for a value equal to none
KeyName(value) ==
    CASE value = RETURN -> "Return"
      [] value = ESCAPE -> "Escape"
      [] value = UP -> "Up"
      [] value = DOWN -> "Down"
      [] value = RIGHT -> "Right"
      [] value = LEFT -> "Left"
      [] value = END -> "End"
      [] value = HOME -> "Home"
      [] value = PAGE_UP -> "PageUp"
      [] value = PAGE_DOWN -> "PageDown"
      [] OTHER -> "Other"

\* a table with the codes of Page Up and Page Down exchanged
WINDOWS_SPECIAL_KEYS_PagesSwapped ==
    (71 :> HOME) @@ (72 :> UP) @@ (73 :> PAGE_DOWN) @@ (75 :> LEFT) @@
    (77 :> RIGHT) @@ (79 :> END) @@ (80 :> DOWN) @@ (81 :> PAGE_UP)

\* _WINDOWS_SPECIAL_KEYS
WINDOWS_SPECIAL_KEYS ==
    (71 :> HOME) @@ (72 :> UP) @@ (73 :> PAGE_UP) @@ (75 :> LEFT) @@
    (77 :> RIGHT) @@ (79 :> END) @@ (80 :> DOWN) @@ (81 :> PAGE_DOWN)

\* the keys of the keyboard that are pressed: the ten keys of the vocabulary,
\* a letter and two function keys
VocabularyKeys == {"Return", "Escape", "Up", "Down", "Left", "Right", "Home", "End",
                   "PageUp", "PageDown"}
LogicalKeys == VocabularyKeys \cup {"a", "F1", "F5"}

\* the key name the menu loop should see for a key of the keyboard
KeySymbol(k) == IF k \in VocabularyKeys THEN k ELSE "Other"

\* what msvcrt.getch() delivers for a key: one byte, or a prefix byte 0 or
\* 224 and the scan code of a special key
Prefixes == {0, 224}
ScanCode(k) ==
    CASE k = "Home" -> 71 [] k = "Up" -> 72 [] k = "PageUp" -> 73 [] k = "Left" -> 75
      [] k = "Right" -> 77 [] k = "End" -> 79 [] k = "Down" -> 80 [] k = "PageDown" -> 81
      [] k = "F1" -> 59 [] k = "F5" -> 63
ConsoleBytes(k, prefix) ==
    CASE k = "Return" -> <<13>>
      [] k = "Escape" -> <<27>>
      [] k = "a" -> <<97>>
      [] k \in {"F1", "F5"} -> <<0, ScanCode(k)>>
      [] OTHER -> <<prefix, ScanCode(k)>>

\* what an xterm-compatible terminal sends for a key
XtermBytes(k) ==
    CASE k = "Return" -> <<13>>
      [] k = "Escape" -> <<27>>
      [] k = "a" -> <<97>>
      [] k = "F1" -> <<27, 79, 80>>
      [] k = "F5" -> <<27, 91, 49, 53, 126>>
      [] k = "Up" -> <<27, 91, 65>>
      [] k = "Down" -> <<27, 91, 66>>
      [] k = "Right" -> <<27, 91, 67>>
      [] k = "Left" -> <<27, 91, 68>>
      [] k = "End" -> <<27, 91, 70>>
      [] k = "Home" -> <<27, 91, 72>>
      [] k = "PageUp" -> <<27, 91, 53, 126>>
      [] k = "PageDown" -> <<27, 91, 54, 126>>

\* the input processing of the tty, which disable_echo leaves on: a carriage
\* return received is queued as a line feed (only ECHO and ICANON are cleared)
TtyInput(bytes) == [i \in 1..Len(bytes) |-> IF bytes[i] = 13 THEN 10 ELSE bytes[i]]

\* msvcrt read_key on the console input buf (not empty, and holding the scan
\* code of every prefix byte); Ctrl+C is the action Interrupt
WindowsReadKey(buf) ==
    LET first == Head(buf)
    IN  IF first = 13 THEN [key |-> RETURN, rest |-> Tail(buf)]
        ELSE IF first \in Prefixes
        THEN [key |-> IF buf[2] \in DOMAIN WINDOWS_SPECIAL_KEYS
                      THEN WINDOWS_SPECIAL_KEYS[buf[2]] ELSE <<>>,
              rest |-> Tail(Tail(buf))]
        ELSE [key |-> <<first>>, rest |-> Tail(buf)]

\* os.read(sys.stdin.fileno(), 4): at most four of the bytes waiting
TermiosRead(buf) == SubSeq(buf, 1, Min(4, Len(buf)))

\* the user presses the key k; prefix: the prefix byte of the Windows console
\* for a special key (224, or 0 for the numeric keypad)
Press(k, prefix) ==
    /\ Len(pressed) < MaxPresses
    /\ pressed' = Append(pressed, k)
    /\ win_in' = win_in \o ConsoleBytes(k, prefix)
    /\ tty_in' = tty_in \o TtyInput(XtermBytes(k))
    /\ UNCHANGED <<tty_pc, win_keys, tty_keys>>
    /\ UNCHANGED <<menu_vars, lines, cursor_report_vars, wizard_vars, print_vars>>

\* a call of the msvcrt read_key: getch() waits until the console has input
WinReadKey ==
    /\ win_in # <<>>
    /\ win_keys' = Append(win_keys, KeyName(WindowsReadKey(win_in).key))
    /\ win_in' = WindowsReadKey(win_in).rest
    /\ UNCHANGED <<pressed, tty_in, tty_pc, tty_keys>>
    /\ UNCHANGED <<menu_vars, lines, cursor_report_vars, wizard_vars, print_vars>>

\* the termios read_key is called: disable_echo sets the attributes with
\* TCSAFLUSH, which discards the input received but not read, then os.read waits
TtyReadKeyEnter ==
    /\ tty_pc = "idle"
    /\ tty_pc' = "reading"
    /\ tty_in' = <<>>
    /\ UNCHANGED <<pressed, win_in, win_keys, tty_keys>>
    /\ UNCHANGED <<menu_vars, lines, cursor_report_vars, wizard_vars, print_vars>>

\* os.read returns with the bytes waiting, at most four, and disable_echo
\* restores the attributes with TCSAFLUSH, which discards the rest
TtyReadKeyReturn ==
    /\ tty_pc = "reading"
    /\ tty_in # <<>>
    /\ tty_keys' = Append(tty_keys, KeyName(TermiosRead(tty_in)))
    /\ tty_in' = <<>>
    /\ tty_pc' = "idle"
    /\ UNCHANGED <<pressed, win_in, win_keys>>
    /\ UNCHANGED <<menu_vars, lines, cursor_report_vars, wizard_vars, print_vars>>

InitKeyboard ==
    /\ entry = "TerminalMenu"
    /\ items = ItemList(1)
    /\ default_index = 0
    /\ focus_index = 0
    /\ scroll_index = 0
    /\ lines = MaxLines
    /\ menu_height = MenuHeight(lines)
    /\ pc = "idle"
    /\ frame = 0
    /\ key = "none"
    /\ result = <<>>
    /\ exc = "none"
    /\ default_no = FALSE
    /\ prompt_result = <<>>
    /\ prompt_exc = "none"
    /\ InitTerminal
    /\ InitOuter

NextKeys ==
    \/ \E k \in LogicalKeys : \E prefix \in Prefixes : Press(k, prefix)
    \/ WinReadKey
    \/ TtyReadKeyEnter
    \/ TtyReadKeyReturn

SpecKeys == InitKeyboard /\ [][NextKeys]_vars

(* ---------------------------------------------------------------------- *)
(* Properties                                                              *)
(* ---------------------------------------------------------------------- *)
InRange(i) == 0 <= i /\ i <= Len(items) - 1
VisibleCount == DisplayCount(Len(items), menu_height)

\* C1: with a non-empty item list and an in-range default index, focus_index
\* is inside [0, len(items)-1] after every key that show() handles, for every
\* viewport height and every sequence of navigation keys (and so is the
\* focus of any call after a navigation key, whatever the default index).
C1_FocusInRange ==
    /\ Len(items) >= 1
    /\ (InRange(default_index) => InRange(focus_index))
    /\ (key \in NavKeys => InRange(focus_index))

\* C1 witness: Page Up has been handled in a list of at least three items with
\* an in-range, non-zero default index, and the focus was clamped to 0.
C1_Witness ==
    /\ key = "PageUp"
    /\ Len(items) >= 3
    /\ InRange(default_index) /\ default_index > 0
    /\ menu_height >= 2
    /\ focus_index = 0

\* C2 (as claimed): in every frame drawn, for every viewport height of at
\* least one row and whenever there are more items than visible rows, the
\* focused item is inside the visible window:
\* scroll_index <= focus_index <= scroll_index + visibleCount - 1.
C2_FocusVisible ==
    (pc = "input" /\ menu_height >= 1 /\ InRange(focus_index)
        /\ Len(items) > VisibleCount)
    => (scroll_index <= focus_index /\ focus_index <= scroll_index + VisibleCount - 1)

\* C3 (as claimed): in every frame in which all items fit in the viewport
\* (len(items) <= viewport height) the recomputed scroll_index is 0.
C3_FitsScrollZero ==
    (pc # "idle" /\ Len(items) <= menu_height) => scroll_index = 0

\* C4 (as claimed): pressing Return while focus_index = k ends the loop and
\* show() returns exactly items[k]; handling Return changes neither
\* focus_index, scroll_index nor the item list.
C4_ReturnGivesFocused ==
    [][HandleKey("Return") =>
        /\ pc' = "returned"
        /\ PyIndexOk(items, focus_index)
        /\ result' = <<PyIndex(items, focus_index)>>
        /\ UNCHANGED <<focus_index, scroll_index, items>>]_vars

\* C5: pressing Escape in any frame, after any sequence of earlier keys, ends
\* the loop with StopMenu leaving show(), and show() returns no item.
C5_EscapeCancels ==
    key = "Escape" => (pc = "raised" /\ exc = "StopMenu" /\ result = <<>>)

\* C5 witness: Escape was pressed in a later frame, after other keys had
\* moved the focus away from the default index.
C5_Witness ==
    /\ key = "Escape"
    /\ frame = 2
    /\ focus_index # default_index
    /\ exc = "StopMenu"

\* C6 (as claimed): a default_index outside [0, len(items)-1] is clamped
\* before it is used: the focus of the first frame is a valid index, and
\* Return as the first key returns the item at the clamped index.
C6_DefaultClamped ==
    /\ (frame = 1 /\ pc = "input" => InRange(focus_index))
    /\ (frame = 1 /\ key = "Return" =>
            /\ pc = "returned"
            /\ result = <<items[ClampFocus(default_index, Len(items)) + 1]>>)

\* C7 (as claimed, here for viewports of two or more rows and a valid focus):
\* a key that is none of the eight keys of the table is a no-op: with the
\* terminal size unchanged, the next frame has the same focus_index and the
\* same scroll_index.
C7_OtherKeyNoOp ==
    [][(HandleKey("Other") /\ MenuHeight(lines) = menu_height /\ menu_height >= 2
            /\ InRange(focus_index)) =>
        /\ pc' = "input"
        /\ focus_index' = focus_index
        /\ scroll_index' = scroll_index]_vars

\* C8: each navigation key changes focus_index as the key table says (Up -1,
\* Down +1, Page Up / Page Down minus / plus the viewport height of the frame
\* on the screen, Home 0, End len(items)-1) and the result is clamped to
\* [0, len(items)-1]; Page Down from focus 0 with height 5 gives
\* min(5, len(items)-1).
C8_Clamped(x) ==
    IF x < 0 THEN 0 ELSE IF x > Len(items) - 1 THEN Len(items) - 1 ELSE x
C8_KeyTable ==
    [][/\ HandleKey("Up") => focus_index' = C8_Clamped(focus_index - 1)
       /\ HandleKey("Down") => focus_index' = C8_Clamped(focus_index + 1)
       /\ HandleKey("PageUp") => focus_index' = C8_Clamped(focus_index - menu_height)
       /\ HandleKey("PageDown") => focus_index' = C8_Clamped(focus_index + menu_height)
       /\ HandleKey("Home") => focus_index' = 0
       /\ HandleKey("End") => focus_index' = Len(items) - 1
       /\ (HandleKey("PageDown") /\ focus_index = 0 /\ menu_height = 5)
            => focus_index' = Min(5, Len(items) - 1)]_vars

\* C8 witness: Page Down has moved the focus to item 5 of a list of more than
\* six items in a viewport of five rows that was resized afterwards.
C8_Witness ==
    /\ key = "PageDown"
    /\ Len(items) > 6
    /\ menu_height = 5
    /\ focus_index = 5
    /\ MenuHeight(lines) # menu_height

\* C9: in a terminal that keeps its size, with a viewport of h >= 1 rows and
\* n > h items: the first frame with focus on item 0 has scroll_index 0; End
\* pressed there gives a frame with scroll_index n - h (the last item on the
\* bottom row); Home pressed there gives a frame with scroll_index 0.
C9_Scenario ==
    /\ [](frame = 1 /\ pc = "input" /\ focus_index = 0 => scroll_index = 0)
    /\ [][(/\ HandleKey("End")
           /\ MenuHeight(lines) = menu_height
           /\ 1 <= menu_height /\ menu_height < Len(items)
           /\ focus_index = 0 /\ scroll_index = 0) =>
             /\ pc' = "input"
             /\ focus_index' = Len(items) - 1
             /\ scroll_index' = Len(items) - menu_height
             /\ scroll_index' + menu_height' - 1 = focus_index']_vars
    /\ [][(/\ HandleKey("Home")
           /\ MenuHeight(lines) = menu_height
           /\ 1 <= menu_height /\ menu_height < Len(items)
           /\ focus_index = Len(items) - 1
           /\ scroll_index = Len(items) - menu_height) =>
             /\ pc' = "input"
             /\ focus_index' = 0
             /\ scroll_index' = 0]_vars

\* C9 witness: the case of 20 items in 5 rows after End: items 15..19 are
\* visible and item 19 is focused.
C9_Witness ==
    /\ Len(items) = 20
    /\ menu_height = 5
    /\ pc = "input"
    /\ key = "End"
    /\ focus_index = 19
    /\ scroll_index = 15

\* C10: show_prompt shows the two items Yes, No with the first focus on No
\* when default_no is true and on Yes otherwise; it returns true iff the loop
\* ended with Return on Yes, false for Return on No, and false when the menu
\* is cancelled with Escape, and then no exception leaves show_prompt.
C10_Prompt ==
    entry = "show_prompt" =>
        /\ items = <<YES, NO>>
        /\ (frame = 1 => /\ InRange(focus_index)
                         /\ items[focus_index + 1] = (IF default_no THEN NO ELSE YES))
        /\ (prompt_result = <<TRUE>> <=>
                (key = "Return" /\ InRange(focus_index) /\ items[focus_index + 1] = YES))
        /\ ((key = "Return" /\ InRange(focus_index) /\ items[focus_index + 1] = NO)
                => prompt_result = <<FALSE>>)
        /\ (key = "Escape" => (prompt_result = <<FALSE>> /\ prompt_exc = "none"))

\* C10 witness: show_prompt(default_no=True) was cancelled with Escape in its
\* first frame, with the focus on No, and returned false.
C10_Witness ==
    /\ entry = "show_prompt"
    /\ default_no
    /\ frame = 1
    /\ key = "Escape"
    /\ items[focus_index + 1] = NO
    /\ prompt_result = <<FALSE>>

\* C11: on every way out of show() (an item returned, StopMenu,
\* KeyboardInterrupt, or another error raised inside the loop) the cursor is
\* visible again and exactly one blank line has been printed after the last
\* frame; while the loop runs the cursor is hidden and no blank line is printed.
C11_CleanupOnExit ==
    /\ (pc \in {"returned", "raised"} => (cursor_visible /\ blank_lines = 1))
    /\ (pc \in {"input", "cursor_pos"} => (~cursor_visible /\ blank_lines = 0))

\* C11 witness: an error other than StopMenu (the ValueError of a cursor
\* position report that does not parse) has left show() after a key.
C11_Witness ==
    /\ pc = "raised"
    /\ exc = "ValueError"
    /\ key \in NavKeys
    /\ cursor_visible
    /\ blank_lines = 1

\* C16 (as claimed): the state of a call of show() is fresh: the first frame
\* of every call, also of a second call on the same TerminalMenu object, has
\* focus_index = default_index and the scroll index computed from the initial
\* value 0, so it does not depend on an earlier call.
C16_FreshState ==
    (frame = 1 /\ key = "none" /\ InRange(default_index) /\ menu_height >= 2) =>
        /\ focus_index = default_index
        /\ scroll_index = GetScrollIndex(Len(items), menu_height, default_index, 0)

\* C17 (as claimed): get_cursor_pos does not read forever: a read that returns
\* nothing because standard input is at end of file ends get_cursor_pos, and
\* with it the menu loop, with an error.
C17_EofRaises ==
    [][(GetCursorPosRead /\ stdin_buf = <<>> /\ stdin_eof)
        => (pc' = "raised" /\ exc' # "none")]_vars

\* C18 (as claimed): in every frame with at least one row, every row drawn
\* addresses an existing item, 0 <= scroll_index and scroll_index +
\* displayCount <= len(items), whatever keys and changes of the terminal
\* height came before, and _print_menu never raises IndexError.
C18_RowsInRange ==
    (frame >= 1 /\ menu_height >= 1 /\ InRange(focus_index)) =>
        /\ 0 <= scroll_index
        /\ scroll_index + VisibleCount <= Len(items)
        /\ exc # "IndexError"

\* C12 (as claimed): every cancellation of the wizard, by Escape in a menu
\* that lets StopMenu through, by Ctrl+C during a key read, or by an empty
\* repo URL, reaches main(), which prints "Canceled." and exits with a
\* non-zero status; a genuine failure never prints "Canceled.".
C12_CancelPrintsCanceled ==
    wizard = "exited" =>
        /\ (main_exc.cause \in {"escape", "interrupt", "empty_input"} =>
                /\ main_printed = <<"Canceled.">>
                /\ exit_status # <<>> /\ exit_status # <<0>>)
        /\ (main_exc.cause = "failure" => main_printed # <<"Canceled.">>)

\* C13 (as claimed): every line printed in a frame, the title line and each
\* item line alike, occupies exactly viewport-width character cells (colour
\* codes not counted): longer text is truncated to the width, shorter text is
\* padded with spaces to it.
C13_LinesFillWidth ==
    printed # NoFrame =>
        /\ Cells(printed.title) = printed.width
        /\ \A row \in 1..Len(printed.rows) : Cells(printed.rows[row]) = printed.width

\* C14: the msvcrt and the termios read_key return the same symbolic key for
\* the same key pressed, for each of Return, Escape, Up, Down, Left, Right,
\* Home, End, Page Up, Page Down and for keys outside this vocabulary: a call
\* that reads the bytes of one keypress returns the key constant of that key,
\* or a value equal to no key constant for a key outside the vocabulary, so
\* _handle_input takes the same branch under either implementation.
C14_StartsWith(buf, bytes) ==
    Len(buf) >= Len(bytes) /\ SubSeq(buf, 1, Len(bytes)) = bytes
C14_SameSymbol ==
    [][\A k \in LogicalKeys :
          /\ (TtyReadKeyReturn /\ tty_in = TtyInput(XtermBytes(k)))
                => tty_keys' = Append(tty_keys, KeySymbol(k))
          /\ (WinReadKey /\ \E prefix \in Prefixes :
                    C14_StartsWith(win_in, ConsoleBytes(k, prefix)))
                => win_keys' = Append(win_keys, KeySymbol(k))]_vars

\* C14 witness: Page Up and then F1 were pressed, each while the termios
\* reader was waiting, and both implementations returned PAGE_UP and then a
\* value equal to no key constant.
C14_Witness ==
    /\ pressed = <<"PageUp", "F1">>
    /\ win_keys = <<"PageUp", "Other">>
    /\ tty_keys = <<"PageUp", "Other">>

\* C15 (as claimed): each call of read_key consumes exactly one keypress and
\* returns its symbolic key: the values returned so far are the keys pressed,
\* one per call and in order, also when several keypresses were queued; no
\* keypress is lost, merged with another or split over two calls.
C15_OnePerCall ==
    /\ Len(win_keys) <= Len(pressed)
    /\ \A i \in 1..Len(win_keys) : win_keys[i] = KeySymbol(pressed[i])
    /\ Len(tty_keys) <= Len(pressed)
    /\ \A i \in 1..Len(tty_keys) : tty_keys[i] = KeySymbol(pressed[i])

====
